---- MODULE Spec2Model ----
(***************************************************************************)
(* State-machine model of "OpenGL - Hello Triangle/main (explanations).cpp" *)
(* main() is a single thread; pc is its position.  Every action is one     *)
(* statement group of main().  The window system is the environment: it    *)
(* queues events that glfwPollEvents later processes.                       *)
(***************************************************************************)
EXTENDS Integers, Sequences, FiniteSets, TLC

\* ---------------------------------------------------------------- bounds
MaxEvents == 2

\* ------------------------------------------------------- program constants
SCR_WIDTH == 800
SCR_HEIGHT == 600

\* vertices[] in tenths (0.5f -> 5), 4 vertices of 3 components
vertices == << 5, 5, 0,   5, -5, 0,   -5, -5, 0,   -5, 5, 0 >>

indices == << 0, 2, 3,   0, 1, 2 >>

\* names of the OpenGL objects main() creates
vertexShader == "vertexShader"
fragmentShader == "fragmentShader"
shaderProgram == "shaderProgram"
VAO == "VAO"
VBO == "VBO"
EBO == "EBO"

Shaders == {vertexShader, fragmentShader}
Buffers == {VBO, EBO}
Objects == {vertexShader, fragmentShader, shaderProgram, VAO, VBO, EBO}

\* framebuffer sizes the window system may resize the window to
Sizes == { <<SCR_WIDTH, SCR_HEIGHT>>, <<1024, 768>> }

\* call sites of main() outside the render loop, <<function, argument>>
SetupSites ==
    { <<"glfwInit", "">>, <<"glfwCreateWindow", "">>, <<"glfwMakeContextCurrent", "">>,
      <<"glfwSetFramebufferSizeCallback", "">>, <<"gladLoadGLLoader", "">>,
      <<"glfwTerminate", "">> }

GLSites ==
    { <<"glCreateShader", vertexShader>>, <<"glShaderSource", vertexShader>>,
      <<"glCompileShader", vertexShader>>,
      <<"glGetShaderiv", vertexShader>>, <<"glGetShaderInfoLog", vertexShader>>,
      <<"glCreateShader", fragmentShader>>, <<"glShaderSource", fragmentShader>>,
      <<"glCompileShader", fragmentShader>>,
      <<"glGetShaderiv", fragmentShader>>, <<"glGetShaderInfoLog", fragmentShader>>,
      <<"glCreateProgram", shaderProgram>>, <<"glAttachShader", vertexShader>>,
      <<"glAttachShader", fragmentShader>>, <<"glLinkProgram", shaderProgram>>,
      <<"glGetProgramiv", shaderProgram>>, <<"glGetProgramInfoLog", shaderProgram>>,
      <<"glDeleteShader", vertexShader>>, <<"glDeleteShader", fragmentShader>>,
      <<"glDeleteProgram", shaderProgram>>,
      <<"glGenVertexArrays", VAO>>, <<"glGenBuffers", VBO>>, <<"glGenBuffers", EBO>>,
      <<"glBindVertexArray", VAO>>, <<"glBindBuffer", "GL_ARRAY_BUFFER">>,
      <<"glBindBuffer", "GL_ELEMENT_ARRAY_BUFFER">>,
      <<"glBufferData", "GL_ARRAY_BUFFER">>, <<"glBufferData", "GL_ELEMENT_ARRAY_BUFFER">>,
      <<"glVertexAttribPointer", "0">>, <<"glEnableVertexAttribArray", "0">>,
      <<"glPolygonMode", "GL_FRONT_AND_BACK">>,
      <<"glDeleteVertexArrays", VAO>>, <<"glDeleteBuffers", VBO>>, <<"glDeleteBuffers", EBO>> }

CallSites == SetupSites \cup GLSites

\* calls made by one iteration of the render loop
LoopCalls ==
    { "processInput", "glClear", "glUseProgram", "glBindVertexArray",
      "glDrawElements", "glfwSwapBuffers", "glfwPollEvents" }

NoFrame == [c \in LoopCalls |-> 0]
NoDraw == [drawn |-> FALSE]
NoCallback == [ran |-> FALSE]

VARIABLES
    pc,            \* position of main()
    ret,           \* << >> while main() runs, <<v>> once it returned v
    stdout,        \* lines written to std::cout
    calls,         \* number of times each call site outside the loop ran
    glfw,          \* GLFW library: "uninit", "init", "terminated"
    window,        \* "unset", "NULL", "live", "destroyed"
    contextCurrent,
    fbCallback,    \* registered framebuffer-size callback, "none" if none
    glad,          \* "unset", "loaded", "failed"
    shouldClose,   \* the window's should-close flag
    keyEscape,     \* GLFW's cached state of GLFW_KEY_ESCAPE
    events,        \* events queued by the window system, not yet polled
    fbSize,        \* current framebuffer size of the window
    success,       \* int success: "uninit", "GL_TRUE" or "GL_FALSE"
    infoLog,       \* char infoLog[512]: << >> until a log is fetched
    objState,      \* per OpenGL object: "none", "live", "flagged", "deleted"
    compileStatus, \* GL_COMPILE_STATUS of each shader
    attached,      \* shaders attached to shaderProgram
    linkStatus,    \* GL_LINK_STATUS of shaderProgram
    gl,            \* context state: bindings, polygon mode, viewport, ...
    bufferData,    \* data store of each buffer object
    frame,         \* calls made in the current loop iteration
    loopEntered,   \* the loop body was entered at least once
    lastDraw,      \* snapshot of the context at the latest glDrawElements
    lastCallback   \* snapshot at the latest framebuffer_size_callback

progVars == << pc, ret, stdout, calls, success, infoLog, frame, loopEntered >>
glfwVars == << glfw, window, contextCurrent, fbCallback, glad, shouldClose,
               keyEscape, events, fbSize >>
glVars == << objState, compileStatus, attached, linkStatus, gl, bufferData >>
obsVars == << lastDraw, lastCallback >>
vars == << pc, ret, stdout, calls, glfw, window, contextCurrent, fbCallback, glad,
           shouldClose, keyEscape, events, fbSize, success, infoLog, objState,
           compileStatus, attached, linkStatus, gl, bufferData, frame, loopEntered,
           lastDraw, lastCallback >>

Bump(c, sites) == [s \in DOMAIN c |-> IF s \in sites THEN c[s] + 1 ELSE c[s]]

Init ==
    /\ pc = "glfwInit"
    /\ ret = << >>
    /\ stdout = << >>
    /\ calls = [s \in CallSites |-> 0]
    /\ glfw = "uninit"
    /\ window = "unset"
    /\ contextCurrent = FALSE
    /\ fbCallback = "none"
    /\ glad = "unset"
    /\ shouldClose = FALSE
    /\ keyEscape = "RELEASE"
    /\ events = << >>
    /\ fbSize = <<SCR_WIDTH, SCR_HEIGHT>>
    /\ success = "uninit"
    /\ infoLog = << >>
    /\ objState = [o \in Objects |-> "none"]
    /\ compileStatus = [s \in Shaders |-> FALSE]
    /\ attached = {}
    /\ linkStatus = FALSE
    /\ gl = [ currentProgram |-> "0", boundVAO |-> "0", arrayBuffer |-> "0",
              elementBuffer |-> "0",
              attrib0 |-> [enabled |-> FALSE, size |-> 0, stride |-> 0, buffer |-> "0"],
              polygonMode |-> "GL_FILL", viewport |-> <<0, 0, 0, 0>>,
              clearColor |-> <<0, 0, 0, 0>> ]
    /\ bufferData = [b \in Buffers |-> << >>]
    /\ frame = NoFrame
    /\ loopEntered = FALSE
    /\ lastDraw = NoDraw
    /\ lastCallback = NoCallback

\* the info log OpenGL keeps for a shader or program object
InfoLogOf(o) == <<"info log", o>>

\* glfwTerminate destroys all remaining windows (comment at line 213)
WindowAfterTerminate(w) == IF w = "live" THEN "destroyed" ELSE w

\* main, lines 37-40: glfwInit and the window hints
GlfwInit ==
    /\ pc = "glfwInit"
    /\ glfw' = "init"
    /\ calls' = Bump(calls, { <<"glfwInit", "">> })
    /\ pc' = "glfwCreateWindow"
    /\ UNCHANGED << ret, stdout, success, infoLog, frame, loopEntered >>
    /\ UNCHANGED << window, contextCurrent, fbCallback, glad, shouldClose,
                    keyEscape, events, fbSize >>
    /\ UNCHANGED glVars
    /\ UNCHANGED obsVars

\* variant of CreateWindow whose NULL branch lacks the return
CreateWindow_FallThrough ==
    /\ pc = "glfwCreateWindow"
    /\ \E created \in BOOLEAN :
         IF created
           THEN /\ window' = "live"
                /\ calls' = Bump(calls, { <<"glfwCreateWindow", "">> })
                /\ pc' = "glfwMakeContextCurrent"
                /\ UNCHANGED << ret, stdout, glfw >>
           ELSE /\ window' = "NULL"
                /\ stdout' = Append(stdout, <<"Failed to create GLFW Window">>)
                /\ glfw' = "terminated"
                /\ calls' = Bump(calls, { <<"glfwCreateWindow", "">>,
                                          <<"glfwTerminate", "">> })
                /\ pc' = "glfwMakeContextCurrent"
                /\ UNCHANGED ret
    /\ UNCHANGED << success, infoLog, frame, loopEntered >>
    /\ UNCHANGED << contextCurrent, fbCallback, glad, shouldClose,
                    keyEscape, events, fbSize >>
    /\ UNCHANGED glVars
    /\ UNCHANGED obsVars

\* main, lines 45-54: glfwCreateWindow and the NULL check
CreateWindow ==
    /\ pc = "glfwCreateWindow"
    /\ \E created \in BOOLEAN :
         IF created
           THEN /\ window' = "live"
                /\ calls' = Bump(calls, { <<"glfwCreateWindow", "">> })
                /\ pc' = "glfwMakeContextCurrent"
                /\ UNCHANGED << ret, stdout, glfw >>
           ELSE /\ window' = "NULL"
                /\ stdout' = Append(stdout, <<"Failed to create GLFW Window">>)
                /\ glfw' = "terminated"
                /\ calls' = Bump(calls, { <<"glfwCreateWindow", "">>,
                                          <<"glfwTerminate", "">> })
                /\ ret' = << -1 >>
                /\ pc' = "done"
    /\ UNCHANGED << success, infoLog, frame, loopEntered >>
    /\ UNCHANGED << contextCurrent, fbCallback, glad, shouldClose,
                    keyEscape, events, fbSize >>
    /\ UNCHANGED glVars
    /\ UNCHANGED obsVars

\* main, line 58: glfwMakeContextCurrent(window)
\* the context's initial viewport is the size of the window it is attached to
MakeContextCurrent ==
    /\ pc = "glfwMakeContextCurrent"
    /\ contextCurrent' = TRUE
    /\ gl' = [gl EXCEPT !.viewport = <<0, 0, fbSize[1], fbSize[2]>>]
    /\ calls' = Bump(calls, { <<"glfwMakeContextCurrent", "">> })
    /\ pc' = "glfwSetFramebufferSizeCallback"
    /\ UNCHANGED << ret, stdout, success, infoLog, frame, loopEntered >>
    /\ UNCHANGED << glfw, window, fbCallback, glad, shouldClose,
                    keyEscape, events, fbSize >>
    /\ UNCHANGED << objState, compileStatus, attached, linkStatus, bufferData >>
    /\ UNCHANGED obsVars

\* main, line 62: glfwSetFramebufferSizeCallback(window, framebuffer_size_callback)
SetFramebufferSizeCallback ==
    /\ pc = "glfwSetFramebufferSizeCallback"
    /\ fbCallback' = "framebuffer_size_callback"
    /\ calls' = Bump(calls, { <<"glfwSetFramebufferSizeCallback", "">> })
    /\ pc' = "gladLoadGLLoader"
    /\ UNCHANGED << ret, stdout, success, infoLog, frame, loopEntered >>
    /\ UNCHANGED << glfw, window, contextCurrent, glad, shouldClose,
                    keyEscape, events, fbSize >>
    /\ UNCHANGED glVars
    /\ UNCHANGED obsVars

\* variant of LoadGL whose failure branch lacks the return
LoadGL_FallThrough ==
    /\ pc = "gladLoadGLLoader"
    /\ calls' = Bump(calls, { <<"gladLoadGLLoader", "">> })
    /\ \E loaded \in BOOLEAN :
         IF loaded
           THEN /\ glad' = "loaded"
                /\ pc' = "compileVertexShader"
                /\ UNCHANGED << ret, stdout >>
           ELSE /\ glad' = "failed"
                /\ stdout' = Append(stdout, <<"Failed to initialize GLAD">>)
                /\ pc' = "compileVertexShader"
                /\ UNCHANGED ret
    /\ UNCHANGED << success, infoLog, frame, loopEntered >>
    /\ UNCHANGED << glfw, window, contextCurrent, fbCallback, shouldClose,
                    keyEscape, events, fbSize >>
    /\ UNCHANGED glVars
    /\ UNCHANGED obsVars

\* main, lines 66-70: gladLoadGLLoader and the failure return
LoadGL ==
    /\ pc = "gladLoadGLLoader"
    /\ calls' = Bump(calls, { <<"gladLoadGLLoader", "">> })
    /\ \E loaded \in BOOLEAN :
         IF loaded
           THEN /\ glad' = "loaded"
                /\ pc' = "compileVertexShader"
                /\ UNCHANGED << ret, stdout >>
           ELSE /\ glad' = "failed"
                /\ stdout' = Append(stdout, <<"Failed to initialize GLAD">>)
                /\ ret' = << -1 >>
                /\ pc' = "done"
    /\ UNCHANGED << success, infoLog, frame, loopEntered >>
    /\ UNCHANGED << glfw, window, contextCurrent, fbCallback, shouldClose,
                    keyEscape, events, fbSize >>
    /\ UNCHANGED glVars
    /\ UNCHANGED obsVars

\* main, lines 90-98: create, source and compile the vertex shader
\* whether the driver accepts the source is not decided by the program
CompileVertexShader ==
    /\ pc = "compileVertexShader"
    /\ objState' = [objState EXCEPT ![vertexShader] = "live"]
    /\ \E ok \in BOOLEAN :
         compileStatus' = [compileStatus EXCEPT ![vertexShader] = ok]
    /\ calls' = Bump(calls, { <<"glCreateShader", vertexShader>>,
                              <<"glShaderSource", vertexShader>>,
                              <<"glCompileShader", vertexShader>> })
    /\ pc' = "checkVertexShader"
    /\ UNCHANGED << ret, stdout, success, infoLog, frame, loopEntered >>
    /\ UNCHANGED glfwVars
    /\ UNCHANGED << attached, linkStatus, gl, bufferData >>
    /\ UNCHANGED obsVars

\* main, lines 102-118: query GL_COMPILE_STATUS of vertexShader, log a failure
CheckVertexShader ==
    /\ pc = "checkVertexShader"
    /\ success' = IF compileStatus[vertexShader] THEN "GL_TRUE" ELSE "GL_FALSE"
    /\ IF success' = "GL_FALSE"
         THEN /\ infoLog' = InfoLogOf(vertexShader)
              /\ stdout' = Append(stdout,
                     <<"ERROR::SHADER::VERTEX::COMPILATION_FAILED", infoLog'>>)
              /\ calls' = Bump(calls, { <<"glGetShaderiv", vertexShader>>,
                                        <<"glGetShaderInfoLog", vertexShader>> })
         ELSE /\ calls' = Bump(calls, { <<"glGetShaderiv", vertexShader>> })
              /\ UNCHANGED << infoLog, stdout >>
    /\ pc' = "compileFragmentShader"
    /\ UNCHANGED << ret, frame, loopEntered >>
    /\ UNCHANGED glfwVars
    /\ UNCHANGED glVars
    /\ UNCHANGED obsVars

\* main, lines 124-127: create, source and compile the fragment shader
CompileFragmentShader ==
    /\ pc = "compileFragmentShader"
    /\ objState' = [objState EXCEPT ![fragmentShader] = "live"]
    /\ \E ok \in BOOLEAN :
         compileStatus' = [compileStatus EXCEPT ![fragmentShader] = ok]
    /\ calls' = Bump(calls, { <<"glCreateShader", fragmentShader>>,
                              <<"glShaderSource", fragmentShader>>,
                              <<"glCompileShader", fragmentShader>> })
    /\ pc' = "linkProgram"
    /\ UNCHANGED << ret, stdout, success, infoLog, frame, loopEntered >>
    /\ UNCHANGED glfwVars
    /\ UNCHANGED << attached, linkStatus, gl, bufferData >>
    /\ UNCHANGED obsVars

\* main, lines 133-137: create the program, attach both shaders, link
\* a program with a shader that did not compile cannot link
LinkProgram ==
    /\ pc = "linkProgram"
    /\ objState' = [objState EXCEPT ![shaderProgram] = "live"]
    /\ attached' = attached \cup {vertexShader, fragmentShader}
    /\ \E ok \in BOOLEAN :
         linkStatus' = (ok /\ \A s \in attached' : compileStatus[s])
    /\ calls' = Bump(calls, { <<"glCreateProgram", shaderProgram>>,
                              <<"glAttachShader", vertexShader>>,
                              <<"glAttachShader", fragmentShader>>,
                              <<"glLinkProgram", shaderProgram>> })
    /\ pc' = "checkLink"
    /\ UNCHANGED << ret, stdout, success, infoLog, frame, loopEntered >>
    /\ UNCHANGED glfwVars
    /\ UNCHANGED << compileStatus, gl, bufferData >>
    /\ UNCHANGED obsVars

\* variant of CheckLink that gives up when the link failed
CheckLink_ReturnOnFailure ==
    /\ pc = "checkLink"
    /\ success' = IF linkStatus THEN "GL_TRUE" ELSE "GL_FALSE"
    /\ IF success' = "GL_FALSE"
         THEN /\ infoLog' = InfoLogOf(shaderProgram)
              /\ stdout' = Append(stdout,
                     <<"ERROR::SHADER::PROGRAM::LINKING_FAILED", infoLog'>>)
              /\ calls' = Bump(calls, { <<"glGetProgramiv", shaderProgram>>,
                                        <<"glGetProgramInfoLog", shaderProgram>> })
         ELSE /\ calls' = Bump(calls, { <<"glGetProgramiv", shaderProgram>> })
              /\ UNCHANGED << infoLog, stdout >>
    /\ IF success' = "GL_FALSE"
         THEN pc' = "done" /\ ret' = << -1 >>
         ELSE pc' = "deleteShaders" /\ UNCHANGED ret
    /\ UNCHANGED << frame, loopEntered >>
    /\ UNCHANGED glfwVars
    /\ UNCHANGED glVars
    /\ UNCHANGED obsVars

\* main, lines 141-145: query GL_LINK_STATUS of shaderProgram, log a failure
CheckLink ==
    /\ pc = "checkLink"
    /\ success' = IF linkStatus THEN "GL_TRUE" ELSE "GL_FALSE"
    /\ IF success' = "GL_FALSE"
         THEN /\ infoLog' = InfoLogOf(shaderProgram)
              /\ stdout' = Append(stdout,
                     <<"ERROR::SHADER::PROGRAM::LINKING_FAILED", infoLog'>>)
              /\ calls' = Bump(calls, { <<"glGetProgramiv", shaderProgram>>,
                                        <<"glGetProgramInfoLog", shaderProgram>> })
         ELSE /\ calls' = Bump(calls, { <<"glGetProgramiv", shaderProgram>> })
              /\ UNCHANGED << infoLog, stdout >>
    /\ pc' = "deleteShaders"
    /\ UNCHANGED << ret, frame, loopEntered >>
    /\ UNCHANGED glfwVars
    /\ UNCHANGED glVars
    /\ UNCHANGED obsVars

\* main, lines 146-147: glDeleteShader of both shaders
\* a shader still attached to a program is only flagged for deletion
DeleteShaders ==
    /\ pc = "deleteShaders"
    /\ objState' = [o \in Objects |->
                      IF o \in Shaders
                        THEN (IF o \in attached THEN "flagged" ELSE "deleted")
                        ELSE objState[o]]
    /\ calls' = Bump(calls, { <<"glDeleteShader", vertexShader>>,
                              <<"glDeleteShader", fragmentShader>> })
    /\ pc' = "genObjects"
    /\ UNCHANGED << ret, stdout, success, infoLog, frame, loopEntered >>
    /\ UNCHANGED glfwVars
    /\ UNCHANGED << compileStatus, attached, linkStatus, gl, bufferData >>
    /\ UNCHANGED obsVars

\* main, lines 152-159: glGenVertexArrays(1, &VAO), glGenBuffers for VBO and EBO
GenObjects ==
    /\ pc = "genObjects"
    /\ objState' = [o \in Objects |->
                      IF o \in {VAO, VBO, EBO} THEN "live" ELSE objState[o]]
    /\ calls' = Bump(calls, { <<"glGenVertexArrays", VAO>>, <<"glGenBuffers", VBO>>,
                              <<"glGenBuffers", EBO>> })
    /\ pc' = "uploadVertices"
    /\ UNCHANGED << ret, stdout, success, infoLog, frame, loopEntered >>
    /\ UNCHANGED glfwVars
    /\ UNCHANGED << compileStatus, attached, linkStatus, gl, bufferData >>
    /\ UNCHANGED obsVars

\* glBufferData(target, sizeof(src), src, usage): fills the buffer bound to target
glBufferData(g, data, target, src) ==
    LET b == IF target = "GL_ARRAY_BUFFER" THEN g.arrayBuffer ELSE g.elementBuffer
    IN  IF b \in DOMAIN data THEN [data EXCEPT ![b] = src] ELSE data

\* main, lines 161-168: bind VAO, bind VBO to GL_ARRAY_BUFFER, upload vertices
UploadVertices ==
    /\ pc = "uploadVertices"
    /\ gl' = [gl EXCEPT !.boundVAO = VAO, !.arrayBuffer = VBO]
    /\ bufferData' = glBufferData(gl', bufferData, "GL_ARRAY_BUFFER", vertices)
    /\ calls' = Bump(calls, { <<"glBindVertexArray", VAO>>,
                              <<"glBindBuffer", "GL_ARRAY_BUFFER">>,
                              <<"glBufferData", "GL_ARRAY_BUFFER">> })
    /\ pc' = "uploadIndices"
    /\ UNCHANGED << ret, stdout, success, infoLog, frame, loopEntered >>
    /\ UNCHANGED glfwVars
    /\ UNCHANGED << objState, compileStatus, attached, linkStatus >>
    /\ UNCHANGED obsVars

\* main, lines 170-171: bind EBO to GL_ELEMENT_ARRAY_BUFFER, upload indices
UploadIndices ==
    /\ pc = "uploadIndices"
    /\ gl' = [gl EXCEPT !.elementBuffer = EBO]
    /\ bufferData' = glBufferData(gl', bufferData, "GL_ELEMENT_ARRAY_BUFFER", indices)
    /\ calls' = Bump(calls, { <<"glBindBuffer", "GL_ELEMENT_ARRAY_BUFFER">>,
                              <<"glBufferData", "GL_ELEMENT_ARRAY_BUFFER">> })
    /\ pc' = "vertexAttrib"
    /\ UNCHANGED << ret, stdout, success, infoLog, frame, loopEntered >>
    /\ UNCHANGED glfwVars
    /\ UNCHANGED << objState, compileStatus, attached, linkStatus >>
    /\ UNCHANGED obsVars

\* main, lines 175-176: glVertexAttribPointer(0, 3, GL_FLOAT, ...), enable attribute 0
SetVertexAttrib ==
    /\ pc = "vertexAttrib"
    /\ gl' = [gl EXCEPT !.attrib0 = [enabled |-> TRUE, size |-> 3, stride |-> 3,
                                    buffer |-> gl.arrayBuffer]]
    /\ calls' = Bump(calls, { <<"glVertexAttribPointer", "0">>,
                              <<"glEnableVertexAttribArray", "0">> })
    /\ pc' = "glPolygonMode"
    /\ UNCHANGED << ret, stdout, success, infoLog, frame, loopEntered >>
    /\ UNCHANGED glfwVars
    /\ UNCHANGED << objState, compileStatus, attached, linkStatus, bufferData >>
    /\ UNCHANGED obsVars

\* variant of SetPolygonMode that leaves filled polygons
SetPolygonMode_Fill ==
    /\ pc = "glPolygonMode"
    /\ gl' = [gl EXCEPT !.polygonMode = "GL_FILL"]
    /\ calls' = Bump(calls, { <<"glPolygonMode", "GL_FRONT_AND_BACK">> })
    /\ pc' = "loopTest"
    /\ UNCHANGED << ret, stdout, success, infoLog, frame, loopEntered >>
    /\ UNCHANGED glfwVars
    /\ UNCHANGED << objState, compileStatus, attached, linkStatus, bufferData >>
    /\ UNCHANGED obsVars

\* main, line 180: glPolygonMode(GL_FRONT_AND_BACK, GL_LINE)
SetPolygonMode ==
    /\ pc = "glPolygonMode"
    /\ gl' = [gl EXCEPT !.polygonMode = "GL_LINE"]
    /\ calls' = Bump(calls, { <<"glPolygonMode", "GL_FRONT_AND_BACK">> })
    /\ pc' = "loopTest"
    /\ UNCHANGED << ret, stdout, success, infoLog, frame, loopEntered >>
    /\ UNCHANGED glfwVars
    /\ UNCHANGED << objState, compileStatus, attached, linkStatus, bufferData >>
    /\ UNCHANGED obsVars

\* main, line 185: while (!glfwWindowShouldClose(window))
LoopTest ==
    /\ pc = "loopTest"
    /\ IF ~shouldClose
         THEN /\ pc' = "processInput"
              /\ frame' = NoFrame
              /\ loopEntered' = TRUE
         ELSE /\ pc' = "deleteVertexObjects"
              /\ UNCHANGED << frame, loopEntered >>
    /\ UNCHANGED << ret, stdout, calls, success, infoLog >>
    /\ UNCHANGED glfwVars
    /\ UNCHANGED glVars
    /\ UNCHANGED obsVars

\* variant of processInput that passes false to glfwSetWindowShouldClose
processInput_SetFalse ==
    /\ pc = "processInput"
    /\ shouldClose' = IF keyEscape = "PRESS" THEN FALSE ELSE shouldClose
    /\ frame' = Bump(frame, {"processInput"})
    /\ pc' = "glClear"
    /\ UNCHANGED << ret, stdout, calls, success, infoLog, loopEntered >>
    /\ UNCHANGED << glfw, window, contextCurrent, fbCallback, glad,
                    keyEscape, events, fbSize >>
    /\ UNCHANGED glVars
    /\ UNCHANGED obsVars

\* main, line 189 and processInput, lines 222-226
processInput ==
    /\ pc = "processInput"
    /\ shouldClose' = IF keyEscape = "PRESS" THEN TRUE ELSE shouldClose
    /\ frame' = Bump(frame, {"processInput"})
    /\ pc' = "glClear"
    /\ UNCHANGED << ret, stdout, calls, success, infoLog, loopEntered >>
    /\ UNCHANGED << glfw, window, contextCurrent, fbCallback, glad,
                    keyEscape, events, fbSize >>
    /\ UNCHANGED glVars
    /\ UNCHANGED obsVars

\* main, lines 194-195: glClearColor(0.2f, 0.3f, 0.3f, 1.0f), glClear (tenths)
Clear ==
    /\ pc = "glClear"
    /\ gl' = [gl EXCEPT !.clearColor = <<2, 3, 3, 10>>]
    /\ frame' = Bump(frame, {"glClear"})
    /\ pc' = "glDrawElements"
    /\ UNCHANGED << ret, stdout, calls, success, infoLog, loopEntered >>
    /\ UNCHANGED glfwVars
    /\ UNCHANGED << objState, compileStatus, attached, linkStatus, bufferData >>
    /\ UNCHANGED obsVars

\* what glDrawElements(mode, count, GL_UNSIGNED_INT, 0) reads from the context g
DrawSnapshot(g, mode, count, f) ==
    [ drawn |-> TRUE, mode |-> mode, count |-> count,
      program |-> g.currentProgram, linked |-> linkStatus,
      vao |-> g.boundVAO, polygonMode |-> g.polygonMode,
      elementData |-> IF g.elementBuffer \in DOMAIN bufferData
                        THEN bufferData[g.elementBuffer] ELSE << >>,
      vertexData |-> IF g.attrib0.enabled /\ g.attrib0.buffer \in DOMAIN bufferData
                       THEN bufferData[g.attrib0.buffer] ELSE << >>,
      objState |-> objState, calls |-> calls, frame |-> f ]

\* variant of Draw that uploads the vertex data again in every frame
Draw_ReUpload ==
    /\ pc = "glDrawElements"
    /\ gl' = [gl EXCEPT !.currentProgram = shaderProgram, !.boundVAO = VAO]
    /\ frame' = Bump(frame, {"glUseProgram", "glBindVertexArray", "glDrawElements"})
    /\ lastDraw' = DrawSnapshot(gl', "GL_TRIANGLES", 6,
                                Bump(frame, {"glUseProgram", "glBindVertexArray"}))
    /\ pc' = "glfwSwapBuffers"
    /\ calls' = Bump(calls, { <<"glBufferData", "GL_ARRAY_BUFFER">> })
    /\ UNCHANGED << ret, stdout, success, infoLog, loopEntered >>
    /\ UNCHANGED glfwVars
    /\ UNCHANGED << objState, compileStatus, attached, linkStatus, bufferData >>
    /\ UNCHANGED lastCallback

\* main, lines 197-200: glUseProgram(shaderProgram), glBindVertexArray(VAO),
\* glDrawElements(GL_TRIANGLES, 6, GL_UNSIGNED_INT, 0)
\* gl.currentProgram is the program named by the latest glUseProgram call
Draw ==
    /\ pc = "glDrawElements"
    /\ gl' = [gl EXCEPT !.currentProgram = shaderProgram, !.boundVAO = VAO]
    /\ frame' = Bump(frame, {"glUseProgram", "glBindVertexArray", "glDrawElements"})
    /\ lastDraw' = DrawSnapshot(gl', "GL_TRIANGLES", 6,
                                Bump(frame, {"glUseProgram", "glBindVertexArray"}))
    /\ pc' = "glfwSwapBuffers"
    /\ UNCHANGED << ret, stdout, calls, success, infoLog, loopEntered >>
    /\ UNCHANGED glfwVars
    /\ UNCHANGED << objState, compileStatus, attached, linkStatus, bufferData >>
    /\ UNCHANGED lastCallback

\* variant of framebuffer_size_callback with width and height exchanged
framebuffer_size_callback_Swapped(g, width, height) ==
    [g EXCEPT !.viewport = <<0, 0, height, width>>]

\* framebuffer_size_callback, lines 234-237: glViewport(0, 0, width, height)
framebuffer_size_callback(g, width, height) ==
    [g EXCEPT !.viewport = <<0, 0, width, height>>]

\* one event handled by GLFW: a resize invokes the registered callback, a key
\* event updates the cached key state, a close request sets the close flag
HandleEvent(st, e, caller) ==
    CASE e.kind = "resize" ->
           IF st.fbCallback = "framebuffer_size_callback"
             THEN [st EXCEPT
                     !.gl = framebuffer_size_callback(st.gl, e.size[1], e.size[2]),
                     !.lastCallback = [ ran |-> TRUE, width |-> e.size[1],
                                        height |-> e.size[2], caller |-> caller,
                                        glad |-> glad, frame |-> st.frame ]]
             ELSE st
      [] e.kind = "key" -> [st EXCEPT !.keyEscape = e.state]
      [] e.kind = "close" -> [st EXCEPT !.shouldClose = TRUE]

\* glfwPollEvents processes the queued events in order and returns (comment at 203)
RECURSIVE ProcessEvents(_, _, _)
ProcessEvents(st, evs, caller) ==
    IF evs = << >>
      THEN st
      ELSE ProcessEvents(HandleEvent(st, Head(evs), caller), Tail(evs), caller)

\* main, line 205: glfwSwapBuffers(window)
SwapBuffers ==
    /\ pc = "glfwSwapBuffers"
    /\ frame' = Bump(frame, {"glfwSwapBuffers"})
    /\ pc' = "glfwPollEvents"
    /\ UNCHANGED << ret, stdout, calls, success, infoLog, loopEntered >>
    /\ UNCHANGED glfwVars
    /\ UNCHANGED glVars
    /\ UNCHANGED obsVars

\* main, line 206: glfwPollEvents()
PollEvents ==
    /\ pc = "glfwPollEvents"
    /\ frame' = Bump(frame, {"glfwPollEvents"})
    /\ LET st == ProcessEvents([ gl |-> gl, fbCallback |-> fbCallback,
                                 keyEscape |-> keyEscape, shouldClose |-> shouldClose,
                                 lastCallback |-> lastCallback, frame |-> frame' ],
                               events, "glfwPollEvents")
       IN  /\ gl' = st.gl
           /\ keyEscape' = st.keyEscape
           /\ shouldClose' = st.shouldClose
           /\ lastCallback' = st.lastCallback
    /\ events' = << >>
    /\ pc' = "loopTest"
    /\ UNCHANGED << ret, stdout, calls, success, infoLog, loopEntered >>
    /\ UNCHANGED << glfw, window, contextCurrent, fbCallback, glad, fbSize >>
    /\ UNCHANGED << objState, compileStatus, attached, linkStatus, bufferData >>
    /\ UNCHANGED lastDraw

\* main, lines 209-211: glDeleteVertexArrays(1, &VAO), glDeleteBuffers for VBO, EBO
DeleteVertexObjects ==
    /\ pc = "deleteVertexObjects"
    /\ objState' = [o \in Objects |->
                      IF o \in {VAO, VBO, EBO} THEN "deleted" ELSE objState[o]]
    /\ gl' = [gl EXCEPT !.boundVAO = "0", !.arrayBuffer = "0", !.elementBuffer = "0"]
    /\ calls' = Bump(calls, { <<"glDeleteVertexArrays", VAO>>,
                              <<"glDeleteBuffers", VBO>>, <<"glDeleteBuffers", EBO>> })
    /\ pc' = "glfwTerminate"
    /\ UNCHANGED << ret, stdout, success, infoLog, frame, loopEntered >>
    /\ UNCHANGED glfwVars
    /\ UNCHANGED << compileStatus, attached, linkStatus, bufferData >>
    /\ UNCHANGED obsVars

\* main, lines 215-216: glfwTerminate(), return 0
Terminate ==
    /\ pc = "glfwTerminate"
    /\ glfw' = "terminated"
    /\ window' = WindowAfterTerminate(window)
    /\ contextCurrent' = FALSE
    /\ calls' = Bump(calls, { <<"glfwTerminate", "">> })
    /\ ret' = << 0 >>
    /\ pc' = "done"
    /\ UNCHANGED << stdout, success, infoLog, frame, loopEntered >>
    /\ UNCHANGED << fbCallback, glad, shouldClose, keyEscape, events, fbSize >>
    /\ UNCHANGED glVars
    /\ UNCHANGED obsVars

\* ----------------------------------------------------------- environment
\* the window system delivers events to a live window of a running program
CanQueue == window = "live" /\ pc # "done" /\ Len(events) < MaxEvents

\* the user resizes the window
EnvResize ==
    /\ CanQueue
    /\ \E s \in Sizes \ {fbSize} :
         /\ fbSize' = s
         /\ events' = Append(events, [kind |-> "resize", size |-> s])
    /\ UNCHANGED progVars
    /\ UNCHANGED << glfw, window, contextCurrent, fbCallback, glad, shouldClose, keyEscape >>
    /\ UNCHANGED glVars
    /\ UNCHANGED obsVars

\* the user presses or releases the Escape key
EnvKey ==
    /\ CanQueue
    /\ \E k \in {"PRESS", "RELEASE"} :
         events' = Append(events, [kind |-> "key", state |-> k])
    /\ UNCHANGED progVars
    /\ UNCHANGED << glfw, window, contextCurrent, fbCallback, glad, shouldClose,
                    keyEscape, fbSize >>
    /\ UNCHANGED glVars
    /\ UNCHANGED obsVars

\* the user asks the window to close
EnvClose ==
    /\ CanQueue
    /\ events' = Append(events, [kind |-> "close"])
    /\ UNCHANGED progVars
    /\ UNCHANGED << glfw, window, contextCurrent, fbCallback, glad, shouldClose,
                    keyEscape, fbSize >>
    /\ UNCHANGED glVars
    /\ UNCHANGED obsVars

\* the steps of main()
Main ==
    \/ GlfwInit \/ CreateWindow \/ MakeContextCurrent \/ SetFramebufferSizeCallback
    \/ LoadGL \/ CompileVertexShader \/ CheckVertexShader \/ CompileFragmentShader
    \/ LinkProgram \/ CheckLink \/ DeleteShaders \/ GenObjects \/ UploadVertices
    \/ UploadIndices \/ SetVertexAttrib \/ SetPolygonMode \/ LoopTest \/ processInput
    \/ Clear \/ Draw \/ SwapBuffers \/ PollEvents \/ DeleteVertexObjects \/ Terminate

Next ==
    \/ GlfwInit
    \/ CreateWindow
    \/ MakeContextCurrent
    \/ SetFramebufferSizeCallback
    \/ LoadGL
    \/ CompileVertexShader
    \/ CheckVertexShader
    \/ CompileFragmentShader
    \/ LinkProgram
    \/ CheckLink
    \/ DeleteShaders
    \/ GenObjects
    \/ UploadVertices
    \/ UploadIndices
    \/ SetVertexAttrib
    \/ SetPolygonMode
    \/ LoopTest
    \/ processInput
    \/ Clear
    \/ Draw
    \/ SwapBuffers
    \/ PollEvents
    \/ DeleteVertexObjects
    \/ Terminate
    \/ EnvResize
    \/ EnvKey
    \/ EnvClose

Spec == Init /\ [][Next]_vars

\* every call main() makes returns: main() always takes its next step
FairSpec == Spec /\ WF_vars(Main)
\* ------------------------------------------------------------ properties
Times(site) == calls[site]

InStdout(line) == \E i \in 1..Len(stdout) : stdout[i] = line

\* no OpenGL function has been called and the render loop was not entered
NoGLCall ==
    /\ \A s \in GLSites : calls[s] = 0
    /\ frame = NoFrame
    /\ lastDraw = NoDraw
    /\ ~loopEntered

CompileFailedLine(s) ==
    IF s = vertexShader
      THEN <<"ERROR::SHADER::VERTEX::COMPILATION_FAILED", InfoLogOf(s)>>
      ELSE <<"ERROR::SHADER::FRAGMENT::COMPILATION_FAILED", InfoLogOf(s)>>

LinkFailedLine == <<"ERROR::SHADER::PROGRAM::LINKING_FAILED", InfoLogOf(shaderProgram)>>

\* C1: once the shaders are built (the link status has been handled), each of
\* the two shaders had its GL_COMPILE_STATUS queried and a failed compile has
\* its compilation-failed line on stdout, and the GL_LINK_STATUS was queried
\* and a failed link has its linking-failed line on stdout.
C1_EveryBuildFailureLogged ==
    pc = "deleteShaders" =>
        /\ \A s \in Shaders :
             /\ Times(<<"glGetShaderiv", s>>) = 1
             /\ ~compileStatus[s] => InStdout(CompileFailedLine(s))
        /\ Times(<<"glGetProgramiv", shaderProgram>>) = 1
        /\ ~linkStatus => InStdout(LinkFailedLine)

\* C2: when glfwCreateWindow returned NULL, main has printed the message,
\* called glfwTerminate and returned -1, with no context made current, no
\* callback registered, no OpenGL call and no loop iteration.
C2_WindowFailure ==
    window = "NULL" =>
        /\ stdout = << <<"Failed to create GLFW Window">> >>
        /\ Times(<<"glfwTerminate", "">>) = 1
        /\ glfw = "terminated"
        /\ pc = "done"
        /\ ret = << -1 >>
        /\ ~contextCurrent
        /\ Times(<<"glfwMakeContextCurrent", "">>) = 0
        /\ fbCallback = "none"
        /\ Times(<<"glfwSetFramebufferSizeCallback", "">>) = 0
        /\ Times(<<"gladLoadGLLoader", "">>) = 0
        /\ NoGLCall

C2_Witness == window = "NULL" /\ pc = "done" /\ Len(stdout) = 1

\* C3: when gladLoadGLLoader failed after the window was created, main has
\* printed the message and returned -1 without any OpenGL call and without
\* entering the render loop.
C3_LoaderFailure ==
    glad = "failed" =>
        /\ Times(<<"glfwCreateWindow", "">>) = 1
        /\ window = "live"
        /\ stdout = << <<"Failed to initialize GLAD">> >>
        /\ pc = "done"
        /\ ret = << -1 >>
        /\ NoGLCall

C3_Witness == glad = "failed" /\ pc = "done" /\ window = "live"

\* a shader failed to compile or the program failed to link
BuildFailed ==
    \/ \E s \in Shaders : Times(<<"glCompileShader", s>>) > 0 /\ ~compileStatus[s]
    \/ Times(<<"glLinkProgram", shaderProgram>>) > 0 /\ ~linkStatus

OnceOnlySites ==
    { <<"glfwCreateWindow", "">>, <<"gladLoadGLLoader", "">>,
      <<"glCompileShader", vertexShader>>, <<"glCompileShader", fragmentShader>>,
      <<"glLinkProgram", shaderProgram>> }

C4_Safe ==
    /\ \A s \in OnceOnlySites : Times(s) <= 1
    /\ BuildFailed => ret # << -1 >>
    /\ (BuildFailed /\ pc = "done") =>
          /\ ret = << 0 >>
          /\ Times(<<"glBufferData", "GL_ARRAY_BUFFER">>) = 1
          /\ Times(<<"glBufferData", "GL_ELEMENT_ARRAY_BUFFER">>) = 1
          /\ loopEntered
          /\ lastDraw.drawn
          /\ ~lastDraw.linked
          /\ lastDraw.program = shaderProgram

\* C4: window creation, loader initialisation, each shader compile and the
\* link are each executed at most once, and a compile or link failure never
\* makes main return early: the program goes on to upload the buffers, enter
\* the render loop and draw with the unlinked program.
C4_NoRetryNoStop ==
    /\ []C4_Safe
    /\ BuildFailed ~> (loopEntered /\ lastDraw.drawn /\ ~lastDraw.linked)

C4_Witness ==
    /\ ~compileStatus[fragmentShader]
    /\ Times(<<"glCompileShader", fragmentShader>>) = 1
    /\ lastDraw.drawn
    /\ ~lastDraw.linked
    /\ pc = "done"

\* phases of main(): 1 init, 2 shader compile/link, 3 buffer upload,
\* 4 render loop, 5 cleanup, 6 returned
Phase(p) ==
    CASE p \in {"glfwInit", "glfwCreateWindow", "glfwMakeContextCurrent",
                "glfwSetFramebufferSizeCallback", "gladLoadGLLoader"} -> 1
      [] p \in {"compileVertexShader", "checkVertexShader", "compileFragmentShader",
                "linkProgram", "checkLink", "deleteShaders"} -> 2
      [] p \in {"genObjects", "uploadVertices", "uploadIndices", "vertexAttrib",
                "glPolygonMode"} -> 3
      [] p \in {"loopTest", "processInput", "glClear", "glDrawElements",
                "glfwSwapBuffers", "glfwPollEvents"} -> 4
      [] p \in {"deleteVertexObjects", "glfwTerminate"} -> 5
      [] p = "done" -> 6

BuildAndUploadSites ==
    { <<"glCompileShader", vertexShader>>, <<"glCompileShader", fragmentShader>>,
      <<"glLinkProgram", shaderProgram>>,
      <<"glBufferData", "GL_ARRAY_BUFFER">>, <<"glBufferData", "GL_ELEMENT_ARRAY_BUFFER">> }

VertexObjectsDeleted ==
    \/ Times(<<"glDeleteVertexArrays", VAO>>) > 0
    \/ Times(<<"glDeleteBuffers", VBO>>) > 0
    \/ Times(<<"glDeleteBuffers", EBO>>) > 0

C5_Safe ==
    /\ (glad = "loaded" /\ Phase(pc) >= 4) =>
          /\ \A s \in BuildAndUploadSites : Times(s) = 1
          /\ bufferData[VBO] = vertices
          /\ bufferData[EBO] = indices
    /\ lastDraw.drawn =>
          /\ \A s \in BuildAndUploadSites : lastDraw.calls[s] = 1
          /\ \A o \in {VAO, VBO, EBO} : lastDraw.objState[o] = "live"
          /\ lastDraw.calls[<<"glDeleteVertexArrays", VAO>>] = 0
          /\ lastDraw.calls[<<"glDeleteBuffers", VBO>>] = 0
          /\ lastDraw.calls[<<"glDeleteBuffers", EBO>>] = 0
    /\ (pc = "done" /\ glad = "loaded") => (ret = << 0 >> /\ lastDraw.drawn)

C5_Step ==
    /\ glad' = "loaded" =>
          \/ Phase(pc') = Phase(pc)
          \/ Phase(pc') = Phase(pc) + 1
    /\ (Phase(pc) = 4 /\ Phase(pc') = 4) =>
          \A s \in BuildAndUploadSites : calls'[s] = calls[s]
    /\ VertexObjectsDeleted =>
          (lastDraw' = lastDraw /\ frame' = frame /\ Phase(pc') >= 5)

\* C5: when window creation and loader initialisation succeed, main moves
\* through init, compile/link, upload, loop and cleanup in that order; vertex
\* and index data are each uploaded exactly once, upload and link precede the
\* first draw, nothing is compiled, linked or uploaded inside the loop and
\* nothing is drawn after the VAO/VBO/EBO deletion.
C5_LinearPhases == []C5_Safe /\ [][C5_Step]_vars

C5_Witness ==
    /\ pc = "done"
    /\ ret = << 0 >>
    /\ lastDraw.drawn
    /\ VertexObjectsDeleted
    /\ bufferData[VBO] = vertices

\* the calls of a loop iteration that have run when glDrawElements is issued
FrameAtDraw ==
    [c \in LoopCalls |->
        IF c \in {"processInput", "glClear", "glUseProgram", "glBindVertexArray"}
          THEN 1 ELSE 0]

FullFrame == [c \in LoopCalls |-> 1]

C6_Safe ==
    /\ loopEntered => gl.polygonMode = "GL_LINE"
    /\ \A c \in LoopCalls : frame[c] <= 1
    /\ (loopEntered /\ pc \in {"loopTest", "deleteVertexObjects", "glfwTerminate", "done"})
          => frame = FullFrame
    /\ lastDraw.drawn =>
          /\ lastDraw.polygonMode = "GL_LINE"
          /\ lastDraw.mode = "GL_TRIANGLES"
          /\ lastDraw.count = 6
          /\ lastDraw.program = shaderProgram
          /\ lastDraw.vao = VAO
          /\ lastDraw.frame = FrameAtDraw
          /\ Len(lastDraw.elementData) = lastDraw.count
          /\ Len(lastDraw.vertexData) = 3 * 4
          /\ \A i \in 1..Len(lastDraw.elementData) :
                /\ lastDraw.elementData[i] >= 0
                /\ 3 * lastDraw.elementData[i] + 3 <= Len(lastDraw.vertexData)

C6_Step ==
    /\ Times(<<"glPolygonMode", "GL_FRONT_AND_BACK">>) > 0 =>
          (gl'.polygonMode = gl.polygonMode /\ gl.polygonMode = "GL_LINE")
    /\ pc = "loopTest" => Times(<<"glPolygonMode", "GL_FRONT_AND_BACK">>) = 1

\* C6: polygon mode is GL_LINE from before the first iteration on and never
\* changes; every iteration issues exactly one glDrawElements(GL_TRIANGLES, 6)
\* after the clear and before the swap, with shaderProgram named by
\* glUseProgram and VAO bound; the 6 drawn indices are the uploaded ones and
\* each is below the number of uploaded vertices, 4.
C6_WireframeQuad == []C6_Safe /\ [][C6_Step]_vars

C6_Witness ==
    /\ lastDraw.drawn
    /\ lastDraw.elementData = indices
    /\ pc = "loopTest"
    /\ frame = FullFrame

LoopBodySucc(p) ==
    CASE p = "processInput" -> "glClear"
      [] p = "glClear" -> "glDrawElements"
      [] p = "glDrawElements" -> "glfwSwapBuffers"
      [] p = "glfwSwapBuffers" -> "glfwPollEvents"
      [] p = "glfwPollEvents" -> "loopTest"

LoopBody == {"processInput", "glClear", "glDrawElements", "glfwSwapBuffers",
             "glfwPollEvents"}

C7_Step ==
    /\ shouldClose => shouldClose'
    /\ (pc = "loopTest" /\ pc' # pc) =>
          /\ ~shouldClose => pc' = "processInput"
          /\ shouldClose => pc' = "deleteVertexObjects"
    /\ (pc' = "processInput" /\ pc # pc') => (pc = "loopTest" /\ ~shouldClose)
    /\ (pc = "processInput" /\ pc' # pc /\ keyEscape = "PRESS") => shouldClose'
    /\ (pc \in LoopBody /\ pc' # pc) => pc' = LoopBodySucc(pc)

C7_Safe ==
    /\ pc \in {"deleteVertexObjects", "glfwTerminate"} =>
          (shouldClose /\ frame = FullFrame)
    /\ (pc = "done" /\ loopEntered) =>
          /\ shouldClose
          /\ frame = FullFrame
          /\ ret = << 0 >>
          /\ VertexObjectsDeleted
          /\ glfw = "terminated"

\* C7: the loop body is entered exactly when the should-close flag is false
\* and the program never resets the flag; when processInput sees Escape
\* pressed it sets the flag, the iteration still runs clear, draw, swap and
\* poll, the next loop test exits, and main cleans up and returns 0; so once
\* the flag is set the program eventually terminates.
C7_LoopExit ==
    /\ [][C7_Step]_vars
    /\ []C7_Safe
    /\ shouldClose ~> (pc = "done" /\ ret = << 0 >>)

C7_Witness ==
    /\ pc = "done"
    /\ ret = << 0 >>
    /\ shouldClose
    /\ keyEscape = "PRESS"
    /\ frame = FullFrame

\* C8: whenever main has returned, glfwTerminate has been called, so GLFW is
\* not left initialised with a live window.
C8_TerminateBeforeReturn ==
    pc = "done" =>
        /\ Times(<<"glfwTerminate", "">>) >= 1
        /\ glfw = "terminated"
        /\ window # "live"

DeleteSite(o) ==
    CASE o \in Shaders -> <<"glDeleteShader", o>>
      [] o = shaderProgram -> <<"glDeleteProgram", o>>
      [] o = VAO -> <<"glDeleteVertexArrays", o>>
      [] o \in Buffers -> <<"glDeleteBuffers", o>>

\* C9: when main returns 0, every OpenGL object it created has been deleted
\* exactly once before glfwTerminate, and every draw used objects that were
\* not yet deleted.
C9_AllObjectsDeleted ==
    /\ (pc \in {"glfwTerminate", "done"} /\ ret # << -1 >>) =>
          \A o \in Objects : objState[o] # "none" => Times(DeleteSite(o)) = 1
    /\ lastDraw.drawn =>
          \A o \in {shaderProgram, VAO, VBO, EBO} :
             lastDraw.calls[DeleteSite(o)] = 0

HasResize(evs) == \E i \in 1..Len(evs) : evs[i].kind = "resize"

C10_Safe ==
    /\ glad # "loaded" => ~lastCallback.ran
    /\ lastCallback.ran =>
          /\ lastCallback.caller = "glfwPollEvents"
          /\ lastCallback.glad = "loaded"
          /\ lastCallback.frame = FullFrame
          /\ gl.viewport = <<0, 0, lastCallback.width, lastCallback.height>>
          /\ ~HasResize(events) => gl.viewport = <<0, 0, fbSize[1], fbSize[2]>>

C10_Step ==
    /\ (lastCallback' # lastCallback \/ gl'.viewport # gl.viewport) =>
          \/ pc = "glfwPollEvents" /\ pc' = "loopTest" /\ HasResize(events)
          \/ pc = "glfwMakeContextCurrent"
    /\ (pc = "glfwPollEvents" /\ pc' # pc /\ HasResize(events)) =>
          /\ lastCallback'.ran
          /\ gl'.viewport = <<0, 0, fbSize[1], fbSize[2]>>
    /\ Phase(pc) >= 5 => lastCallback' = lastCallback

\* C10: framebuffer_size_callback runs only inside glfwPollEvents at the end
\* of a loop iteration: never before GLAD loaded, never between the clear and
\* the swap of a frame, never after the loop exited; after a processed resize
\* the viewport is (0, 0, width, height) of the latest framebuffer size.
C10_CallbackOnlyInPoll == []C10_Safe /\ [][C10_Step]_vars

C10_Witness ==
    /\ lastCallback.ran
    /\ lastCallback.width = SCR_WIDTH
    /\ gl.viewport = <<0, 0, SCR_WIDTH, SCR_HEIGHT>>
    /\ events = << >>
    /\ pc = "loopTest"
====
